---- MODULE Spec2Model ----
(***************************************************************************)
(* Fragment assembly and hydration synchronisation of the React SSR        *)
(* fragment server.                                                        *)
(*                                                                         *)
(* Spec        the client side: the useLivePreview hook (Hydration         *)
(*             Synchronizer) under route changes, change notifications,    *)
(*             timers, fetch completions and teardown.                     *)
(* ServerSpec  the production server: manifest load at startup and the     *)
(*             catch-all request handler that assembles the fragment.      *)
(* ModesSpec   the production server or the development server.            *)
(* ResolverSpec    getSlugFromUrl and fetchPageBySlug applied to request   *)
(*             URLs drawn from a bounded set.                              *)
(* SerializerSpec  serializeContent and the parse of its output applied to *)
(*             payloads drawn from a bounded set.                          *)
(* PageSpec    the host page: the fragment is inserted, the hydration      *)
(*             script and the client entry module run, the hook mounts.    *)
(***************************************************************************)
EXTENDS Integers, Sequences, FiniteSets, TLC

VARIABLES
    \* ---- client: useLivePreview ----
    isPreviewMode,        \* CONTENTSTACK_PREVIEW === "true"
    initialContent,       \* argument of useLivePreview (window.__INITIAL_CONTENT__)
    pathname,             \* useLocation().pathname of the latest render
    page,                 \* useState: the page state
    initialPath,          \* useRef: initialPath.current
    livePreviewReady,     \* useRef: livePreviewReady.current
    phase,                \* "seeded" (rendered, effects not run), "mounted", "unmounted"
    effectPending,        \* the [pathname] effect is scheduled after a re-render
    timer,                \* the 200ms setup timer: "none", "pending", "fired", "cleared"
    readyTimer,           \* the 100ms ready timer: "none", "pending", "fired"
    initCalls,            \* number of ContentstackLivePreview.init calls
    entryChangeCallbacks, \* callbacks registered with onEntryChange, in order
    fetches,              \* every fetchPageBySlug call issued by the hook, in order
    inflight,             \* indices of fetches whose promise has not resolved
    mountPath,            \* pathname of the first render, captured by the closures created in it
    navLog,               \* history: targets of the route changes, in order
    notifCount,           \* history: number of change notifications delivered
    droppedCount,         \* history: notifications delivered before the ready flag was set
    \* ---- server: server/index.ts ----
    serverState,          \* "starting", "listening", "exited" (process.exit(1))
    envAssetBaseUrl,      \* process.env.ASSET_BASE_URL
    ASSET_BASE_URL,       \* the module constant computed from it at startup
    manifestFile,         \* what is at manifestPath on disk
    manifest,             \* the module variable manifest
    requests,             \* per request: position in the handler, locals, response
    mode,                 \* which server runs: "production" (index.ts), "development" (dev.ts)
    \* ---- resolver: getSlugFromUrl, fetchPageBySlug ----
    urlA, urlB,           \* two request URLs (req.originalUrl)
    slugA, slugB,         \* getSlugFromUrl of each, once computed
    slugAgain,            \* getSlugFromUrl applied to slugA, once computed
    findOutcome,          \* what the provider's find() did for both lookups
    foundA, foundB,       \* what fetchPageBySlug settled with for each
    \* ---- serializer: serializeContent ----
    payload,              \* the content handed to serializeContent
    serializedText,           \* its result, once computed
    parsed,               \* JSON.parse of the serializedText text, once computed
    \* ---- host page: entry-client.tsx ----
    ssrContent,           \* the content the server rendered with
    served,               \* the response the host page received
    inserted,             \* the host page put the response body into the document
    windowInitialContent, \* window.__INITIAL_CONTENT__
    windowHydrated,       \* window.__HYDRATED__
    entryRuns,            \* number of evaluations of the client entry module
    hydrateCalls          \* history: props.content of every hydrateRoot call

hookVars == <<isPreviewMode, initialContent, pathname, page, initialPath,
              livePreviewReady, phase, effectPending, timer, readyTimer,
              initCalls, entryChangeCallbacks, fetches, inflight, mountPath,
              navLog, notifCount, droppedCount>>

serverVars == <<serverState, envAssetBaseUrl, ASSET_BASE_URL, manifestFile,
                manifest, requests, mode>>

resolverVars == <<urlA, urlB, slugA, slugB, slugAgain, findOutcome, foundA, foundB>>

serializerVars == <<payload, serializedText, parsed>>

clientVars == <<ssrContent, served, inserted, windowInitialContent, windowHydrated,
                entryRuns, hydrateCalls>>

pureVars == <<resolverVars, serializerVars>>

vars == <<hookVars, serverVars, pureVars, clientVars>>

\* ---- bounds ----
MaxNavs == 2
MaxNotifs == 2

\* ---- values ----
Paths == {"/a", "/b"}

Null == [kind |-> "null"]
Undefined == [kind |-> "undefined"]
Entry(p) == [kind |-> "entry", uid |-> p, url |-> p]

\* What the provider's find() does for the query where("url", EQUALS, slug)
\* .limit(1): it throws, or it returns the matching entries (none or one).
FindOutcomes(matching) ==
    {[kind |-> "error"], [kind |-> "entries", entries |-> <<>>]}
        \cup {[kind |-> "entries", entries |-> <<e>>] : e \in matching}

\* The outcomes the client can see for a slug.
ProviderOutcomes(slug) == FindOutcomes({Entry(slug)})

\* Variant: the query without the try/catch around it.
fetchPageBySlugPromise_NoCatch(outcome) ==
    IF outcome.kind = "error" THEN [rejected |-> TRUE, value |-> Null]
    ELSE IF outcome.entries = <<>> THEN [rejected |-> FALSE, value |-> Null]
    ELSE [rejected |-> FALSE, value |-> outcome.entries[1]]

\* The promise fetchPageBySlug returns: the try block resolves it with
\* result.entries?.[0] ?? null, the catch block with null.  (The editable
\* tags of preview mode annotate the same entry and are not represented.)
fetchPageBySlugPromise(outcome) ==
    IF outcome.kind = "error" THEN [rejected |-> FALSE, value |-> Null]
    ELSE IF outcome.entries = <<>> THEN [rejected |-> FALSE, value |-> Null]
    ELSE [rejected |-> FALSE, value |-> outcome.entries[1]]

\* What `await fetchPageBySlug(slug)` evaluates to.
fetchPageBySlug(outcome) == fetchPageBySlugPromise(outcome).value

\* initialContent ?? null
NullishToNull(v) == IF v = Undefined THEN Null ELSE v

\* pathname || "/"
SlugOf(p) == IF p = "" THEN "/" ELSE p

\* fetchContent of the render whose pathname is p, called while the router is at cur.
fetchContent(p, cause, cur, fs) ==
    Append(fs, [path |-> SlugOf(p), cause |-> cause, at |-> cur])

\* setPage(data): React drops a state update of a component that is gone.
setPage(data) == IF phase = "mounted" THEN data ELSE page

\* Variant: the effect without the comparison with initialPath.current.
RouteEffectBody_NoSkip(p, prev, fs) ==
    [initialPath |-> p, fetches |-> fetchContent(p, "route", p, fs)]

\* Variant: the effect without the assignment to initialPath.current.
RouteEffectBody_NoTrack(p, prev, fs) ==
    IF p = prev
    THEN [initialPath |-> prev, fetches |-> fs]
    ELSE [initialPath |-> prev, fetches |-> fetchContent(p, "route", p, fs)]

\* The body of the [pathname] effect: returns the new initialPath.current and fetches.
RouteEffectBody(p, prev, fs) ==
    IF p = prev
    THEN [initialPath |-> prev, fetches |-> fs]
    ELSE [initialPath |-> p, fetches |-> fetchContent(p, "route", p, fs)]

\* Variant: the live-preview effect without the early return.
LivePreviewEffect_NoReturn(preview, t) == "pending"

\* The live-preview effect: the state of the setup timer after the effect ran
\* (early return unless preview mode is on, otherwise setTimeout(..., 200)).
LivePreviewEffect(preview, t) == IF ~preview THEN t ELSE "pending"

\* Variant: the effect returns no cleanup.
CleanupTimer_NoClear(t) == t

\* The cleanup of the live-preview effect: clearTimeout(timer).
CleanupTimer(t) == IF t = "pending" THEN "cleared" ELSE t

\* Variant: the live-preview effect without a dependency array.
LivePreviewEffectRuns_EveryRender(firstRender) == TRUE

\* Dependency array [] of the live-preview effect: it runs after the first
\* render only.
LivePreviewEffectRuns(firstRender) == firstRender

\* Dependency array [pathname] of the route effect: it runs after the first
\* render and after a render whose pathname differs from the previous one.
RouteEffectRuns(firstRender, prev, cur) == firstRender \/ prev # cur

\* The setup timer after a render: cleanup and effect run again only when the
\* dependency array says so.
TimerAfterRender(firstRender, preview, t) ==
    IF LivePreviewEffectRuns(firstRender)
    THEN LivePreviewEffect(preview, IF firstRender THEN t ELSE CleanupTimer(t))
    ELSE t

\* initLivePreview(): returns early unless preview mode is on (window exists on the client).
initLivePreview(preview, n) == IF ~preview THEN n ELSE n + 1

\* Variant: the callback without the ready flag.
EntryChangeCallback_NoGate(cb, ready, cur, fs) ==
    fetchContent(cb.pathname, "notify", cur, fs)

\* The callback registered with onEntryChange: livePreviewReady.current && fetchContent().
\* cb.pathname is the pathname captured by the fetchContent closure it holds.
EntryChangeCallback(cb, ready, cur, fs) ==
    IF ready THEN fetchContent(cb.pathname, "notify", cur, fs) ELSE fs

RECURSIVE RunCallbacks(_, _, _, _)
RunCallbacks(cbs, ready, cur, fs) ==
    IF cbs = <<>> THEN fs
    ELSE RunCallbacks(Tail(cbs), ready, cur, EntryChangeCallback(Head(cbs), ready, cur, fs))

\* State after the first render: useState and useRef initial values.
HookInit ==
    /\ isPreviewMode \in BOOLEAN
    /\ pathname \in Paths
    /\ initialContent \in {Entry(pathname), Null, Undefined}
    /\ page = NullishToNull(initialContent)
    /\ initialPath = pathname
    /\ livePreviewReady = FALSE
    /\ phase = "seeded"
    /\ effectPending = FALSE
    /\ timer = "none"
    /\ readyTimer = "none"
    /\ initCalls = 0
    /\ entryChangeCallbacks = <<>>
    /\ fetches = <<>>
    /\ inflight = {}
    /\ mountPath = pathname
    /\ navLog = <<>>
    /\ notifCount = 0
    /\ droppedCount = 0

\* First client attachment: both effects run once, in source order.
Mount ==
    /\ phase = "seeded"
    /\ RouteEffectRuns(TRUE, pathname, pathname)
    /\ phase' = "mounted"
    /\ timer' = TimerAfterRender(TRUE, isPreviewMode, timer)
    /\ LET r == RouteEffectBody(pathname, initialPath, fetches) IN
         /\ initialPath' = r.initialPath
         /\ fetches' = r.fetches
         /\ inflight' = inflight \cup (DOMAIN r.fetches \ DOMAIN fetches)
    /\ UNCHANGED <<serverVars, pureVars, clientVars, isPreviewMode, initialContent, pathname, page, livePreviewReady,
                   effectPending, readyTimer, initCalls, entryChangeCallbacks,
                   mountPath, navLog, notifCount, droppedCount>>

\* The router moves to q and the component re-renders; the [pathname] effect
\* is scheduled only when its dependency changed.
Navigate(q) ==
    /\ phase = "mounted"
    /\ ~effectPending
    /\ Len(navLog) < MaxNavs
    /\ pathname' = q
    /\ effectPending' = RouteEffectRuns(FALSE, pathname, q)
    /\ timer' = TimerAfterRender(FALSE, isPreviewMode, timer)
    /\ navLog' = Append(navLog, q)
    /\ UNCHANGED <<serverVars, pureVars, clientVars, isPreviewMode, initialContent, page, initialPath, livePreviewReady,
                   phase, readyTimer, initCalls, entryChangeCallbacks,
                   fetches, inflight, mountPath, notifCount, droppedCount>>

\* The [pathname] effect runs after the re-render.
RouteEffect ==
    /\ phase = "mounted"
    /\ effectPending
    /\ effectPending' = FALSE
    /\ LET r == RouteEffectBody(pathname, initialPath, fetches) IN
         /\ initialPath' = r.initialPath
         /\ fetches' = r.fetches
         /\ inflight' = inflight \cup (DOMAIN r.fetches \ DOMAIN fetches)
    /\ UNCHANGED <<serverVars, pureVars, clientVars, isPreviewMode, initialContent, pathname, page, livePreviewReady,
                   phase, timer, readyTimer, initCalls, entryChangeCallbacks,
                   mountPath, navLog, notifCount, droppedCount>>

\* The 200ms timer fires: init, start the 100ms timer, register the callback.
\* The callback holds the fetchContent closure of the first render.
SetupTimerFires ==
    /\ timer = "pending"
    /\ timer' = "fired"
    /\ initCalls' = initLivePreview(isPreviewMode, initCalls)
    /\ readyTimer' = "pending"
    /\ entryChangeCallbacks' = Append(entryChangeCallbacks, [pathname |-> mountPath])
    /\ UNCHANGED <<serverVars, pureVars, clientVars, isPreviewMode, initialContent, pathname, page, initialPath,
                   livePreviewReady, phase, effectPending, fetches, inflight,
                   mountPath, navLog, notifCount, droppedCount>>

\* The 100ms timer fires: livePreviewReady.current = true.
ReadyTimerFires ==
    /\ readyTimer = "pending"
    /\ readyTimer' = "fired"
    /\ livePreviewReady' = TRUE
    /\ UNCHANGED <<serverVars, pureVars, clientVars, isPreviewMode, initialContent, pathname, page, initialPath,
                   phase, effectPending, timer, initCalls, entryChangeCallbacks,
                   fetches, inflight, mountPath, navLog, notifCount, droppedCount>>

\* The channel delivers a content-change notification: every registered
\* callback runs.
Notify ==
    /\ notifCount < MaxNotifs
    /\ notifCount' = notifCount + 1
    /\ droppedCount' = IF livePreviewReady THEN droppedCount ELSE droppedCount + 1
    /\ fetches' = RunCallbacks(entryChangeCallbacks, livePreviewReady, pathname, fetches)
    /\ inflight' = inflight \cup (DOMAIN fetches' \ DOMAIN fetches)
    /\ UNCHANGED <<serverVars, pureVars, clientVars, isPreviewMode, initialContent, pathname, page, initialPath,
                   livePreviewReady, phase, effectPending, timer, readyTimer,
                   initCalls, entryChangeCallbacks, mountPath, navLog>>

\* The promise of fetch i resolves: setPage(data).
Resolve(i, outcome) ==
    /\ i \in inflight
    /\ outcome \in ProviderOutcomes(fetches[i].path)
    /\ inflight' = inflight \ {i}
    /\ page' = IF fetchPageBySlugPromise(outcome).rejected
               THEN page ELSE setPage(fetchPageBySlug(outcome))
    /\ UNCHANGED <<serverVars, pureVars, clientVars, isPreviewMode, initialContent, pathname, initialPath,
                   livePreviewReady, phase, effectPending, timer, readyTimer,
                   initCalls, entryChangeCallbacks, fetches, mountPath, navLog,
                   notifCount, droppedCount>>

\* The component is torn down: the cleanup of the live-preview effect runs.
Unmount ==
    /\ phase = "mounted"
    /\ phase' = "unmounted"
    /\ timer' = CleanupTimer(timer)
    /\ effectPending' = FALSE
    /\ UNCHANGED <<serverVars, pureVars, clientVars, isPreviewMode, initialContent, pathname, page, initialPath,
                   livePreviewReady, readyTimer, initCalls, entryChangeCallbacks,
                   fetches, inflight, mountPath, navLog, notifCount, droppedCount>>

(***************************************************************************)
(* Production server: server/index.ts, server/utils.ts, src/entry-server   *)
(*                                                                         *)
(* A string is a sequence of tokens.  "/", "?", "<", the double quote and  *)
(* the backslash are tokens of their own; any other token stands for text  *)
(* that contains none of these characters.                                 *)
(***************************************************************************)
MaxReqs == 2
Reqs == 1..MaxReqs

QUOTE == "\""
BACKSLASH == "\\"

RECURSIVE Flatten(_)
Flatten(seqs) == IF seqs = <<>> THEN <<>> ELSE Head(seqs) \o Flatten(Tail(seqs))

\* str.split(sep)[0]
RECURSIVE BeforeFirst(_, _)
BeforeFirst(str, sep) ==
    IF str = <<>> \/ Head(str) = sep THEN <<>>
    ELSE <<Head(str)>> \o BeforeFirst(Tail(str), sep)

\* str.split(sep).pop()
RECURSIVE AfterLast(_, _)
AfterLast(str, sep) ==
    IF str = <<>> THEN <<>>
    ELSE IF str[Len(str)] = sep THEN <<>>
    ELSE AfterLast(SubSeq(str, 1, Len(str) - 1), sep) \o <<str[Len(str)]>>

\* ---- server/utils.ts ----
\* Variant: the URL is used as the slug without the split at "?".
getSlugFromUrl_KeepQuery(url) == IF url = <<>> THEN <<"/">> ELSE url

\* url.split("?")[0] || "/"
getSlugFromUrl(url) ==
    LET first == BeforeFirst(url, "?") IN
    IF first = <<>> THEN <<"/">> ELSE first

\* JSON.stringify of a string value.
EscapeJSON(c) ==
    IF c = QUOTE THEN <<BACKSLASH, QUOTE>>
    ELSE IF c = BACKSLASH THEN <<BACKSLASH, BACKSLASH>>
    ELSE <<c>>

JSONString(str) ==
    <<QUOTE>> \o Flatten([i \in DOMAIN str |-> EscapeJSON(str[i])]) \o <<QUOTE>>

\* The order in which the provider's entry object lists its properties.
KeyOrder == <<"uid", "title", "url">>

RECURSIVE JSONMembers(_, _, _)
JSONMembers(obj, keys, first) ==
    IF keys = <<>> THEN <<>>
    ELSE IF Head(keys) \notin DOMAIN obj THEN JSONMembers(obj, Tail(keys), first)
    ELSE (IF first THEN <<>> ELSE <<",">>)
            \o <<QUOTE, Head(keys), QUOTE, ":">> \o JSONString(obj[Head(keys)])
            \o JSONMembers(obj, Tail(keys), FALSE)

\* JSON.stringify(value) for null and for an entry object; JSON.stringify(undefined)
\* is undefined, not a text.
JSONStringify(v) ==
    IF v = Undefined THEN [undefined |-> TRUE, text |-> <<>>]
    ELSE IF v = Null THEN [undefined |-> FALSE, text |-> <<"null">>]
    ELSE [undefined |-> FALSE,
          text |-> <<"{">> \o JSONMembers(v, KeyOrder, TRUE) \o <<"}">>]

\* The character of a \uXXXX escape.
FromHex(h) == IF h = <<"0", "0", "3", "c">> THEN "<" ELSE "?"

\* Reads a JSON string whose opening quote is at i - 1.
RECURSIVE ReadString(_, _, _)
ReadString(t, i, acc) ==
    IF t[i] = QUOTE THEN [value |-> acc, next |-> i + 1]
    ELSE IF t[i] = BACKSLASH
         THEN IF t[i + 1] = "u"
              THEN ReadString(t, i + 6, Append(acc, FromHex(SubSeq(t, i + 2, i + 5))))
              ELSE ReadString(t, i + 2, Append(acc, t[i + 1]))
    ELSE ReadString(t, i + 1, Append(acc, t[i]))

\* Reads the members of a JSON object; i is at the opening quote of a key.
RECURSIVE ReadMembers(_, _, _)
ReadMembers(t, i, acc) ==
    LET k == ReadString(t, i + 1, <<>>)
        v == ReadString(t, k.next + 2, <<>>)
        obj == (k.value[1] :> v.value) @@ acc
    IN IF t[v.next] = "," THEN ReadMembers(t, v.next + 1, obj) ELSE obj

\* JSON.parse(text); JSON.parse(undefined) throws.
JSONParse(s) ==
    IF s.undefined THEN [threw |-> TRUE, value |-> Null]
    ELSE IF s.text = <<"null">> THEN [threw |-> FALSE, value |-> Null]
    ELSE IF s.text[2] = "}" THEN [threw |-> FALSE, value |-> <<>>]
    ELSE [threw |-> FALSE, value |-> ReadMembers(s.text, 2, <<>>)]

\* Variant: the text is returned without the replacement.
EscapeLt_Identity(text) == text

\* text.replace(/</g, "\\u003c")
EscapeLt(text) ==
    Flatten([i \in DOMAIN text |->
                IF text[i] = "<" THEN <<BACKSLASH, "u", "0", "0", "3", "c">>
                ELSE <<text[i]>>])

\* Variant: "<" is replaced by the HTML entity instead of the JSON escape.
serializeContent_HtmlEntity(content) ==
    LET plain == JSONParse(JSONStringify(content))
        text == JSONStringify(plain.value).text
    IN IF plain.threw THEN [threw |-> TRUE, text |-> <<>>]
       ELSE [threw |-> FALSE,
             text |-> [i \in DOMAIN text |-> IF text[i] = "<" THEN "&lt;" ELSE text[i]]]

\* serializeContent: JSON.stringify(JSON.parse(JSON.stringify(content))).replace(...)
serializeContent(content) ==
    LET plain == JSONParse(JSONStringify(content)) IN
    IF plain.threw THEN [threw |-> TRUE, text |-> <<>>]
    ELSE [threw |-> FALSE, text |-> EscapeLt(JSONStringify(plain.value).text)]

\* ---- src/entry-server.tsx, App, Page ----
\* Variant: Page without the `if (!content)` branch.
render_NoNotFound(url, content) ==
    [branch |-> "page", title |-> IF content = Null THEN <<>> ELSE content.title]

\* render(url, {content}): the markup of the tree under StaticRouter at url.
\* Page shows the not-found branch with the pathname when content is null.
render(url, content) ==
    IF content = Null
    THEN [branch |-> "not-found", pathname |-> BeforeFirst(url, "?")]
    ELSE [branch |-> "page", title |-> content.title]

\* ---- server/index.ts ----
NoValue == [set |-> FALSE]
Value(v) == [set |-> TRUE, value |-> v]

\* Variant: the environment value is used as it is.
AssetBaseUrl_KeepSlash(env) == IF ~env.set THEN <<>> ELSE env.value

\* process.env.ASSET_BASE_URL?.replace(/\/$/, '') || ''
AssetBaseUrl(env) ==
    IF ~env.set THEN <<>>
    ELSE IF env.value # <<>> /\ env.value[Len(env.value)] = "/"
         THEN SubSeq(env.value, 1, Len(env.value) - 1)
    ELSE env.value

\* Variant: the catch block logs and lets the module go on with no manifest.
LoadManifest_Lenient(file) ==
    IF file.kind = "json" THEN [ok |-> TRUE, value |-> file.value]
    ELSE [ok |-> TRUE, value |-> <<>>]

\* JSON.parse(readFileSync(manifestPath)) inside try/catch.
LoadManifest(file) ==
    IF file.kind = "json" THEN [ok |-> TRUE, value |-> file.value]
    ELSE [ok |-> FALSE, value |-> <<>>]

buildAssetUrl(base, assetPath) ==
    LET cleanPath == IF assetPath # <<>> /\ Head(assetPath) = "/"
                     THEN assetPath ELSE <<"/">> \o assetPath
    IN IF base # <<>> THEN base \o cleanPath ELSE cleanPath

\* path.split('/').pop() || path
getFileName(path) ==
    LET last == AfterLast(path, "/") IN
    IF last = <<>> THEN path ELSE last

AssetHref(base, file) == buildAssetUrl(base, <<"/", "assets", "/">> \o getFileName(file))

Tag(kind, url) == [kind |-> kind, url |-> url, crossorigin |-> TRUE]

\* Variant: the stylesheet tags are emitted in reverse list order.
CssTags_Reversed(base, entry) ==
    IF "css" \notin DOMAIN entry THEN <<>>
    ELSE [i \in DOMAIN entry.css |->
            Tag("stylesheet", AssetHref(base, entry.css[Len(entry.css) + 1 - i]))]

\* entry.css?.forEach(...)
CssTags(base, entry) ==
    IF "css" \notin DOMAIN entry THEN <<>>
    ELSE [i \in DOMAIN entry.css |-> Tag("stylesheet", AssetHref(base, entry.css[i]))]

\* Variant: the loop without the processedImports set.
RECURSIVE ImportTags_NoDedupe(_, _, _, _)
ImportTags_NoDedupe(m, base, imports, processedImports) ==
    IF imports = <<>> THEN <<>>
    ELSE LET importKey == Head(imports) IN
         (IF importKey \in DOMAIN m /\ "file" \in DOMAIN m[importKey]
             /\ m[importKey].file # <<>>
          THEN <<Tag("modulepreload", AssetHref(base, m[importKey].file))>>
          ELSE <<>>)
         \o ImportTags_NoDedupe(m, base, Tail(imports), processedImports)

\* entry.imports?.forEach(...) with the processedImports set
RECURSIVE ImportTags(_, _, _, _)
ImportTags(m, base, imports, processedImports) ==
    IF imports = <<>> THEN <<>>
    ELSE LET importKey == Head(imports) IN
         IF importKey \in processedImports
         THEN ImportTags(m, base, Tail(imports), processedImports)
         ELSE (IF importKey \in DOMAIN m /\ "file" \in DOMAIN m[importKey]
                  /\ m[importKey].file # <<>>
               THEN <<Tag("modulepreload", AssetHref(base, m[importKey].file))>>
               ELSE <<>>)
              \o ImportTags(m, base, Tail(imports), processedImports \cup {importKey})

\* Variant: a missing entry gives no tags instead of an error.
generateAssetTags_NoCheck(m, base, entryKey) ==
    IF entryKey \notin DOMAIN m THEN [threw |-> FALSE, tags |-> <<>>]
    ELSE LET entry == m[entryKey] IN
         IF "file" \notin DOMAIN entry THEN [threw |-> TRUE, tags |-> <<>>]
         ELSE [threw |-> FALSE,
               tags |-> CssTags(base, entry)
                        \o (IF "imports" \in DOMAIN entry
                            THEN ImportTags(m, base, entry.imports, {}) ELSE <<>>)
                        \o <<Tag("module", AssetHref(base, entry.file))>>]

\* generateAssetTags(entryKey): throws when the entry is missing (or has no file).
generateAssetTags(m, base, entryKey) ==
    IF entryKey \notin DOMAIN m THEN [threw |-> TRUE, tags |-> <<>>]
    ELSE LET entry == m[entryKey] IN
         IF "file" \notin DOMAIN entry THEN [threw |-> TRUE, tags |-> <<>>]
         ELSE [threw |-> FALSE,
               tags |-> CssTags(base, entry)
                        \o (IF "imports" \in DOMAIN entry
                            THEN ImportTags(m, base, entry.imports, {}) ELSE <<>>)
                        \o <<Tag("module", AssetHref(base, entry.file))>>]

\* Variant: the module script is emitted before the hydration script.
Fragment_ModuleFirst(html, hydrationScript, assetTags) ==
    <<[kind |-> "root", id |-> "fragment-root", html |-> html]>>
        \o <<assetTags[Len(assetTags)]>> \o <<hydrationScript>>
        \o SubSeq(assetTags, 1, Len(assetTags) - 1)

\* `<div id="fragment-root">${html}</div>\n${hydrationScript}\n${assetTags}`
Fragment(html, hydrationScript, assetTags) ==
    <<[kind |-> "root", id |-> "fragment-root", html |-> html]>>
        \o <<hydrationScript>> \o assetTags

\* Variant: the script assigns another global than the one the client reads.
HydrationScript_OtherGlobal(text) ==
    [kind |-> "hydration", global |-> "__CONTENT__", text |-> text]

\* `<script>window.__INITIAL_CONTENT__ = ${text};</script>`
HydrationScript(text) ==
    [kind |-> "hydration", global |-> "__INITIAL_CONTENT__", text |-> text]

\* Variant: the catch block sends the error's stack.
ErrorResponse_WithStack ==
    [status |-> 500,
     body |-> <<[kind |-> "text",
                 text |-> "Error: at /app/dist/server/entry-server.js"]>>]

\* res.status(500).send('Internal Server Error')
ErrorResponse ==
    [status |-> 500, body |-> <<[kind |-> "text", text |-> "Internal Server Error"]>>]

\* ---- server/dev.ts ----
\* The three module scripts of DEV_ASSET_TAGS, in source order: the React
\* refresh preamble, the Vite client, the client entry source.
DEV_ASSET_TAGS ==
    <<[kind |-> "inline-module", imports |-> <<"/", "@react-refresh">>],
      [kind |-> "module", url |-> <<"/", "@vite", "/", "client">>, crossorigin |-> FALSE],
      [kind |-> "module", url |-> <<"/", "src", "/", "entry-client.tsx">>,
       crossorigin |-> FALSE]>>

\* ---- server/index.ts ----
\* Variant: the root container is written before the asset tags are resolved,
\* so an error after it leaves the part already written as the response.
Assemble_Streamed(m, base, rendered, content) ==
    IF ~rendered.ok THEN ErrorResponse
    ELSE LET assetTags == generateAssetTags(m, base, "src/entry-client.tsx")
             serialized == serializeContent(content)
         IN IF assetTags.threw \/ serialized.threw
            THEN [status |-> 200,
                  body |-> <<[kind |-> "root", id |-> "fragment-root", html |-> rendered.html]>>]
            ELSE [status |-> 200,
                  body |-> Fragment(rendered.html, HydrationScript(serialized.text),
                                    assetTags.tags)]

\* Variant: the production handler appends the development bootstrap tags.
Assemble_WithDevTags(m, base, rendered, content) ==
    IF ~rendered.ok THEN ErrorResponse
    ELSE LET assetTags == generateAssetTags(m, base, "src/entry-client.tsx")
             serialized == serializeContent(content)
         IN IF assetTags.threw \/ serialized.threw THEN ErrorResponse
            ELSE [status |-> 200,
                  body |-> Fragment(rendered.html, HydrationScript(serialized.text),
                                    assetTags.tags) \o DEV_ASSET_TAGS]

\* The handler after `await render(...)`: asset tags, hydration script, send.
Assemble(m, base, rendered, content) ==
    IF ~rendered.ok THEN ErrorResponse
    ELSE LET assetTags == generateAssetTags(m, base, "src/entry-client.tsx")
             serialized == serializeContent(content)
         IN IF assetTags.threw \/ serialized.threw THEN ErrorResponse
            ELSE [status |-> 200,
                  body |-> Fragment(rendered.html, HydrationScript(serialized.text),
                                    assetTags.tags)]

\* The step of the try block whose error the catch block caught after
\* `await render(...)`, "none" when res.send was reached.
CaughtAt(m, base, rendered, content) ==
    IF ~rendered.ok THEN "render"
    ELSE IF generateAssetTags(m, base, "src/entry-client.tsx").threw THEN "assets"
    ELSE IF serializeContent(content).threw THEN "serialize"
    ELSE "none"

\* ---- inputs ----
EntryFile == <<"assets", "/", "entry-client-abc123.js">>
Css1 == <<"assets", "/", "entry-client-def456.css">>
Css2 == <<"assets", "/", "vendor-0a1b2c.css">>

\* The manifest entries of the chunks the client entry may import.
Chunks ==
    [k \in {"src/App.tsx", "_vendor.js", "src/style.css"} |->
        IF k = "src/App.tsx"
        THEN [file |-> <<"assets", "/", "App-111.js">>, imports |-> <<"_vendor.js">>]
        ELSE IF k = "_vendor.js" THEN [file |-> <<"assets", "/", "vendor-222.js">>]
        ELSE [file |-> <<>>, css |-> <<Css2>>]]

CssLists == {<<>>, <<Css1>>, <<Css1, Css2>>}
ImportLists == {<<>>, <<"src/App.tsx">>, <<"src/App.tsx", "src/App.tsx">>,
                <<"src/App.tsx", "_vendor.js">>, <<"src/gone.tsx", "src/App.tsx">>,
                <<"src/style.css">>}

ClientEntries ==
    {[file |-> EntryFile]}
        \cup {[file |-> EntryFile, css |-> c] : c \in CssLists}
        \cup {[file |-> EntryFile, imports |-> i] : i \in ImportLists}
        \cup {[file |-> EntryFile, css |-> <<Css1, Css2>>, imports |-> i] : i \in ImportLists}

Manifests == {Chunks} \cup {("src/entry-client.tsx" :> e) @@ Chunks : e \in ClientEntries}

ManifestFiles ==
    {[kind |-> "absent"], [kind |-> "malformed"]}
        \cup {[kind |-> "json", value |-> m] : m \in Manifests}

EnvAssetBaseUrls ==
    {NoValue, Value(<<>>), Value(<<"https:", "/", "/", "cdn.example.com">>),
     Value(<<"https:", "/", "/", "cdn.example.com", "/">>),
     Value(<<"https:", "/", "/", "cdn.example.com", "/", "/">>)}

Urls == {<<"/", "about", "?", "x=1">>, <<"/", "missing">>}

Titles == {<<"X", "<", "/", "script>">>}

\* The entries of the content provider whose url equals slug.
PageEntries(slug) ==
    IF slug = <<"/", "about">>
    THEN {[uid |-> <<"blt1">>, title |-> t, url |-> slug] : t \in Titles}
    ELSE {}

\* The deployments: every manifest file without a base URL, and every base
\* URL setting with a missing file, a bare entry and a full entry.
Deployments ==
    {[env |-> NoValue, file |-> f] : f \in ManifestFiles}
        \cup {[env |-> e, file |-> f] :
                e \in EnvAssetBaseUrls,
                f \in {[kind |-> "absent"],
                       [kind |-> "json",
                        value |-> ("src/entry-client.tsx" :> [file |-> EntryFile]) @@ Chunks],
                       [kind |-> "json",
                        value |-> ("src/entry-client.tsx" :>
                                     [file |-> EntryFile, css |-> <<Css1, Css2>>,
                                      imports |-> <<"src/App.tsx", "_vendor.js">>]) @@ Chunks]}}

IdleRequest ==
    [pc |-> "idle", url |-> <<>>, content |-> Null, failed |-> "none",
     rendered |-> [ok |-> FALSE, html |-> <<>>], response |-> [status |-> 0, body |-> <<>>]]

\* Before the server module is evaluated.
ServerStart ==
    /\ serverState = "starting"
    /\ \E d \in Deployments : envAssetBaseUrl = d.env /\ manifestFile = d.file
    /\ ASSET_BASE_URL = <<>>
    /\ manifest = <<>>
    /\ requests = [r \in Reqs |-> IdleRequest]
    /\ mode = "production"

\* The server as the client model sees it: not part of the page.
ServerIdle ==
    /\ serverState = "starting"
    /\ envAssetBaseUrl = NoValue
    /\ ASSET_BASE_URL = <<>>
    /\ manifestFile = [kind |-> "absent"]
    /\ manifest = <<>>
    /\ requests = [r \in Reqs |-> IdleRequest]
    /\ mode = "production"

\* The client as the server model sees it: no page attached.
HookIdle ==
    /\ isPreviewMode = FALSE
    /\ pathname = "/a"
    /\ initialContent = Undefined
    /\ page = Null
    /\ initialPath = "/a"
    /\ livePreviewReady = FALSE
    /\ phase = "seeded"
    /\ effectPending = FALSE
    /\ timer = "none"
    /\ readyTimer = "none"
    /\ initCalls = 0
    /\ entryChangeCallbacks = <<>>
    /\ fetches = <<>>
    /\ inflight = {}
    /\ mountPath = "/a"
    /\ navLog = <<>>
    /\ notifCount = 0
    /\ droppedCount = 0

\* Module evaluation: ASSET_BASE_URL, manifest load (process.exit(1) on
\* failure), routes, app.listen.
Startup ==
    /\ mode = "production"
    /\ serverState = "starting"
    /\ ASSET_BASE_URL' = AssetBaseUrl(envAssetBaseUrl)
    /\ LET loaded == LoadManifest(manifestFile) IN
         IF loaded.ok
         THEN manifest' = loaded.value /\ serverState' = "listening"
         ELSE manifest' = manifest /\ serverState' = "exited"
    /\ UNCHANGED <<hookVars, pureVars, clientVars, mode, envAssetBaseUrl, manifestFile, requests>>

\* A request arrives; the handler runs up to `await import(...)`.
Receive(r, url) ==
    /\ mode = "production"
    /\ serverState = "listening"
    /\ requests[r].pc = "idle"
    /\ requests' = [requests EXCEPT ![r].pc = "import", ![r].url = url]
    /\ UNCHANGED <<hookVars, pureVars, clientVars, mode, serverState, envAssetBaseUrl, ASSET_BASE_URL,
                   manifestFile, manifest>>

\* The import settles; on success the handler calls fetchPageBySlug(slug)
\* and awaits it, on failure the catch block answers.
ImportSettles(r, ok) ==
    /\ requests[r].pc = "import"
    /\ requests' = IF ok
                   THEN [requests EXCEPT ![r].pc = "fetch"]
                   ELSE [requests EXCEPT ![r].pc = "done", ![r].failed = "import",
                                         ![r].response = ErrorResponse]
    /\ UNCHANGED <<hookVars, pureVars, clientVars, mode, serverState, envAssetBaseUrl, ASSET_BASE_URL,
                   manifestFile, manifest>>

\* Variant: content is a variable of the module, shared by the handler's
\* invocations that have not answered yet.
HandlerLocals_SharedContent(reqs, r, content, rendered) ==
    [q \in DOMAIN reqs |->
        IF q = r
        THEN [reqs[q] EXCEPT !.pc = "render", !.content = content, !.rendered = rendered]
        ELSE IF reqs[q].pc = "render" THEN [reqs[q] EXCEPT !.content = content]
        ELSE reqs[q]]

\* `const content` and `const { html }` are locals of one invocation of the
\* handler.
HandlerLocals(reqs, r, content, rendered) ==
    [reqs EXCEPT ![r].pc = "render", ![r].content = content, ![r].rendered = rendered]

\* fetchPageBySlug settles; a rejection goes to the catch block, otherwise
\* the handler calls render, which runs renderToString and may throw, and
\* awaits it.
FetchSettles(r, outcome, renderOk) ==
    /\ requests[r].pc = "fetch"
    /\ outcome \in FindOutcomes(PageEntries(getSlugFromUrl(requests[r].url)))
    /\ IF fetchPageBySlugPromise(outcome).rejected
       THEN requests' = [requests EXCEPT ![r].pc = "done", ![r].failed = "resolve",
                                         ![r].response = ErrorResponse]
       ELSE LET content == fetchPageBySlug(outcome) IN
            requests' = HandlerLocals(requests, r, content,
                                      IF renderOk
                                      THEN [ok |-> TRUE,
                                            html |-> render(requests[r].url, content)]
                                      ELSE [ok |-> FALSE, html |-> <<>>])
    /\ UNCHANGED <<hookVars, pureVars, clientVars, mode, serverState, envAssetBaseUrl, ASSET_BASE_URL,
                   manifestFile, manifest>>

\* render settles; the rest of the handler runs to res.send, or the catch
\* block answers.
RenderSettles(r) ==
    /\ requests[r].pc = "render"
    /\ requests' = [requests EXCEPT
                      ![r].pc = "done",
                      ![r].failed = CaughtAt(manifest, ASSET_BASE_URL,
                                             requests[r].rendered, requests[r].content),
                      ![r].response = Assemble(manifest, ASSET_BASE_URL,
                                               requests[r].rendered, requests[r].content)]
    /\ UNCHANGED <<hookVars, pureVars, clientVars, mode, serverState, envAssetBaseUrl, ASSET_BASE_URL,
                   manifestFile, manifest>>

\* ---- the other components while one of them is looked at ----
ResolverIdle ==
    /\ urlA = <<>> /\ urlB = <<>>
    /\ slugA = NoValue /\ slugB = NoValue /\ slugAgain = NoValue
    /\ findOutcome = "none"
    /\ foundA = NoValue /\ foundB = NoValue

SerializerIdle ==
    /\ payload = Null
    /\ serializedText = NoValue
    /\ parsed = NoValue

ClientIdle ==
    /\ ssrContent = Null
    /\ served = [status |-> 0, body |-> <<>>]
    /\ inserted = FALSE
    /\ windowInitialContent = Undefined
    /\ windowHydrated = FALSE
    /\ entryRuns = 0
    /\ hydrateCalls = <<>>

ServerInit == ServerStart /\ HookIdle /\ ResolverIdle /\ SerializerIdle /\ ClientIdle

ServerNext ==
    \/ Startup
    \/ \E r \in Reqs, url \in Urls : Receive(r, url)
    \/ \E r \in Reqs, ok \in BOOLEAN : ImportSettles(r, ok)
    \/ \E r \in {q \in Reqs : requests[q].pc = "fetch"}, renderOk \in BOOLEAN :
          \E outcome \in FindOutcomes(PageEntries(getSlugFromUrl(requests[r].url))) :
             FetchSettles(r, outcome, renderOk)
    \/ \E r \in Reqs : RenderSettles(r)

ServerSpec == ServerInit /\ [][ServerNext]_vars

(***************************************************************************)
(* Development server: server/dev.ts                                       *)
(***************************************************************************)
\* The template literal `fragment` of the development handler.
DevFragment(html, text) ==
    <<[kind |-> "root", id |-> "fragment-root", html |-> html],
      [kind |-> "hydration", global |-> "__INITIAL_CONTENT__", text |-> text]>>
        \o DEV_ASSET_TAGS

\* The catch block: the stack of an Error inside <pre>, anything else is
\* passed to next(e) and answered by the framework's error handler.
DevErrorResponse(isError) ==
    IF isError
    THEN [status |-> 500, body |-> <<[kind |-> "pre", text |-> "stack"]>>]
    ELSE [status |-> 500, body |-> <<[kind |-> "framework-error"]>>]

\* Before createDevServer() runs: no manifest and no asset base URL are read.
DevStart ==
    /\ mode = "development"
    /\ serverState = "starting"
    /\ envAssetBaseUrl = NoValue
    /\ ASSET_BASE_URL = <<>>
    /\ manifestFile = [kind |-> "absent"]
    /\ manifest = <<>>
    /\ requests = [r \in Reqs |-> IdleRequest]

\* createDevServer(): the Vite server is created, the routes are installed,
\* app.listen.
DevStartup ==
    /\ mode = "development"
    /\ serverState = "starting"
    /\ serverState' = "listening"
    /\ UNCHANGED <<hookVars, pureVars, clientVars, mode, envAssetBaseUrl, ASSET_BASE_URL,
                   manifestFile, manifest, requests>>

\* A request arrives; the handler runs up to `await vite.ssrLoadModule(...)`.
DevReceive(r, url) ==
    /\ mode = "development"
    /\ serverState = "listening"
    /\ requests[r].pc = "idle"
    /\ requests' = [requests EXCEPT ![r].pc = "dev-import", ![r].url = url]
    /\ UNCHANGED <<hookVars, pureVars, clientVars, mode, serverState, envAssetBaseUrl,
                   ASSET_BASE_URL, manifestFile, manifest>>

\* ssrLoadModule settles; on success the handler calls fetchPageBySlug.
DevImportSettles(r, ok, isError) ==
    /\ requests[r].pc = "dev-import"
    /\ requests' = IF ok
                   THEN [requests EXCEPT ![r].pc = "dev-fetch"]
                   ELSE [requests EXCEPT ![r].pc = "done", ![r].failed = "import",
                                         ![r].response = DevErrorResponse(isError)]
    /\ UNCHANGED <<hookVars, pureVars, clientVars, mode, serverState, envAssetBaseUrl,
                   ASSET_BASE_URL, manifestFile, manifest>>

\* fetchPageBySlug settles; the handler calls render and awaits it.
DevFetchSettles(r, outcome, renderOk) ==
    /\ requests[r].pc = "dev-fetch"
    /\ outcome \in FindOutcomes(PageEntries(getSlugFromUrl(requests[r].url)))
    /\ IF fetchPageBySlugPromise(outcome).rejected
       THEN requests' = [requests EXCEPT ![r].pc = "done", ![r].failed = "resolve",
                                         ![r].response = DevErrorResponse(TRUE)]
       ELSE LET content == fetchPageBySlug(outcome) IN
            requests' = [requests EXCEPT
                           ![r].pc = "dev-render",
                           ![r].content = content,
                           ![r].rendered = IF renderOk
                                           THEN [ok |-> TRUE,
                                                 html |-> render(requests[r].url, content)]
                                           ELSE [ok |-> FALSE, html |-> <<>>]]
    /\ UNCHANGED <<hookVars, pureVars, clientVars, mode, serverState, envAssetBaseUrl,
                   ASSET_BASE_URL, manifestFile, manifest>>

\* render settles; the fragment is built and sent, or the catch block answers.
DevRenderSettles(r, isError) ==
    /\ requests[r].pc = "dev-render"
    /\ LET req == requests[r]
           text == serializeContent(req.content)
       IN requests' = [requests EXCEPT
                         ![r].pc = "done",
                         ![r].failed = IF ~req.rendered.ok THEN "render"
                                       ELSE IF text.threw THEN "serialize" ELSE "none",
                         ![r].response =
                             IF ~req.rendered.ok \/ text.threw
                             THEN DevErrorResponse(isError)
                             ELSE [status |-> 200,
                                   body |-> DevFragment(req.rendered.html, text.text)]]
    /\ UNCHANGED <<hookVars, pureVars, clientVars, mode, serverState, envAssetBaseUrl,
                   ASSET_BASE_URL, manifestFile, manifest>>

DevNext ==
    \/ DevStartup
    \/ \E r \in Reqs, url \in Urls : DevReceive(r, url)
    \/ \E r \in Reqs, ok \in BOOLEAN, isError \in BOOLEAN : DevImportSettles(r, ok, isError)
    \/ \E r \in {q \in Reqs : requests[q].pc = "dev-fetch"}, renderOk \in BOOLEAN :
          \E outcome \in FindOutcomes(PageEntries(getSlugFromUrl(requests[r].url))) :
             DevFetchSettles(r, outcome, renderOk)
    \/ \E r \in Reqs, isError \in BOOLEAN : DevRenderSettles(r, isError)

\* Either server is started.
ModesInit ==
    (ServerStart \/ DevStart) /\ HookIdle /\ ResolverIdle /\ SerializerIdle /\ ClientIdle

ModesNext == ServerNext \/ DevNext

ModesSpec == ModesInit /\ [][ModesNext]_vars

(***************************************************************************)
(* Content Resolver: getSlugFromUrl and fetchPageBySlug on two request     *)
(* URLs, against one provider                                              *)
(***************************************************************************)
MaxUrlLen == 3

SeqsUpTo(S, n) == UNION {[1..k -> S] : k \in 0..n}

UrlTokens == {"/", "?", "a"}
UrlInputs == SeqsUpTo(UrlTokens, MaxUrlLen)

\* The entries in the provider's store whose url field equals slug.
StoredEntries(slug) ==
    IF slug \in {<<"/">>, <<"/", "a">>}
    THEN {[uid |-> <<"blt1">>, title |-> <<"T">>, url |-> slug]}
    ELSE {}

\* find() of the query where("url", EQUALS, slug).limit(1) against the
\* store, for a provider that is down ("error") or answers ("data").
ProviderFind(behaviour, slug) ==
    IF behaviour = "error" THEN [kind |-> "error"]
    ELSE IF StoredEntries(slug) = {} THEN [kind |-> "entries", entries |-> <<>>]
    ELSE [kind |-> "entries", entries |-> <<CHOOSE e \in StoredEntries(slug) : TRUE>>]

ResolverInit ==
    /\ urlA \in UrlInputs /\ urlB \in UrlInputs
    /\ slugA = NoValue /\ slugB = NoValue /\ slugAgain = NoValue
    /\ findOutcome = "none"
    /\ foundA = NoValue /\ foundB = NoValue
    /\ HookIdle /\ ServerIdle /\ SerializerIdle /\ ClientIdle

\* const slug = getSlugFromUrl(req.originalUrl), for each URL.
ExtractSlug ==
    /\ slugA = NoValue
    /\ slugA' = Value(getSlugFromUrl(urlA))
    /\ slugB' = Value(getSlugFromUrl(urlB))
    /\ UNCHANGED <<hookVars, serverVars, serializerVars, clientVars,
                   urlA, urlB, slugAgain, findOutcome, foundA, foundB>>

\* getSlugFromUrl applied to its own result.
ExtractAgain ==
    /\ slugA # NoValue /\ slugAgain = NoValue
    /\ slugAgain' = Value(getSlugFromUrl(slugA.value))
    /\ UNCHANGED <<hookVars, serverVars, serializerVars, clientVars,
                   urlA, urlB, slugA, slugB, findOutcome, foundA, foundB>>

\* const content = await fetchPageBySlug(slug), for each slug.
Lookup(behaviour) ==
    /\ slugA # NoValue /\ foundA = NoValue
    /\ findOutcome' = behaviour
    /\ foundA' = Value(fetchPageBySlugPromise(ProviderFind(behaviour, slugA.value)))
    /\ foundB' = Value(fetchPageBySlugPromise(ProviderFind(behaviour, slugB.value)))
    /\ UNCHANGED <<hookVars, serverVars, serializerVars, clientVars,
                   urlA, urlB, slugA, slugB, slugAgain>>

ResolverNext ==
    \/ ExtractSlug
    \/ ExtractAgain
    \/ \E behaviour \in {"error", "data"} : Lookup(behaviour)

ResolverSpec == ResolverInit /\ [][ResolverNext]_vars

(***************************************************************************)
(* Payload Serializer: serializeContent and the parse of its output        *)
(***************************************************************************)
MaxStrLen == 3

TextTokens == {"<", "/", "script>", "u", QUOTE, BACKSLASH}
Texts == SeqsUpTo(TextTokens, MaxStrLen)

\* Page payloads: null, and entries with and without the optional url.
Payloads ==
    {Null}
        \cup {[uid |-> <<"blt1">>, title |-> t] : t \in Texts}
        \cup {[uid |-> <<"blt1">>, title |-> t, url |-> <<"/", "about">>] : t \in Texts}

SerializerInit ==
    /\ payload \in Payloads
    /\ serializedText = NoValue
    /\ parsed = NoValue
    /\ HookIdle /\ ServerIdle /\ ResolverIdle /\ ClientIdle

\* serializeContent(content)
Serialize ==
    /\ serializedText = NoValue
    /\ serializedText' = Value(serializeContent(payload))
    /\ UNCHANGED <<hookVars, serverVars, resolverVars, clientVars, payload, parsed>>

\* The reader of the serializedText text parses it as data.
Parse ==
    /\ serializedText # NoValue /\ parsed = NoValue
    /\ ~serializedText.value.threw
    /\ parsed' = Value(JSONParse([undefined |-> FALSE, text |-> serializedText.value.text]))
    /\ UNCHANGED <<hookVars, serverVars, resolverVars, clientVars, payload, serializedText>>

SerializerNext == Serialize \/ Parse

SerializerSpec == SerializerInit /\ [][SerializerNext]_vars

(***************************************************************************)
(* The host page: the fragment arrives, its hydration script runs, the     *)
(* client entry module (src/entry-client.tsx) is evaluated, the hook of    *)
(* the hydrated tree mounts                                                *)
(***************************************************************************)
MaxRuns == 2

\* The manifest of the build the page's fragment comes from.
PageManifest == ("src/entry-client.tsx" :> [file |-> EntryFile, css |-> <<Css1>>]) @@ Chunks

\* What the production handler sends for a request of /about whose content is c.
ServedFor(c, renderOk) ==
    Assemble(PageManifest, <<>>,
             IF renderOk THEN [ok |-> TRUE, html |-> render(<<"/", "about">>, c)]
             ELSE [ok |-> FALSE, html |-> <<>>],
             c)

\* The hook before hydrateRoot has rendered the tree.
HookAbsent ==
    /\ isPreviewMode \in BOOLEAN
    /\ pathname \in Paths
    /\ initialContent = Undefined
    /\ page = Null
    /\ initialPath = pathname
    /\ livePreviewReady = FALSE
    /\ phase = "absent"
    /\ effectPending = FALSE
    /\ timer = "none"
    /\ readyTimer = "none"
    /\ initCalls = 0
    /\ entryChangeCallbacks = <<>>
    /\ fetches = <<>>
    /\ inflight = {}
    /\ mountPath = pathname
    /\ navLog = <<>>
    /\ notifCount = 0
    /\ droppedCount = 0

PageInit ==
    /\ ssrContent \in Payloads
    /\ \E renderOk \in BOOLEAN : served = ServedFor(ssrContent, renderOk)
    /\ inserted = FALSE
    /\ windowInitialContent = Undefined
    /\ windowHydrated = FALSE
    /\ entryRuns = 0
    /\ hydrateCalls = <<>>
    /\ HookAbsent /\ ServerIdle /\ ResolverIdle /\ SerializerIdle

\* The elements of a response body of the given kind.
ElementsOf(body, kind) == {i \in DOMAIN body : body[i].kind = kind}

\* document.getElementById("fragment-root")
Container(isInserted, response) ==
    isInserted /\ \E i \in ElementsOf(response.body, "root") : response.body[i].id = "fragment-root"

\* The inline script `window.<global> = <text>;` evaluated by the browser:
\* the value of the global __INITIAL_CONTENT__ afterwards.
EvalHydrationScript(script, before) ==
    IF script.global = "__INITIAL_CONTENT__"
    THEN JSONParse([undefined |-> FALSE, text |-> script.text]).value
    ELSE before

\* window.__INITIAL_CONTENT__ ? JSON.parse(JSON.stringify(window.__INITIAL_CONTENT__)) : null
ReadInitialContent(w) ==
    IF w = Undefined \/ w = Null THEN Null
    ELSE JSONParse(JSONStringify(w)).value

\* The host page puts the response body into the document; the browser runs
\* the inline script of a fragment.
InsertFragment ==
    /\ ~inserted
    /\ inserted' = TRUE
    /\ LET scripts == ElementsOf(served.body, "hydration") IN
         windowInitialContent' =
             IF scripts = {} THEN windowInitialContent
             ELSE EvalHydrationScript(served.body[CHOOSE i \in scripts : TRUE],
                                      windowInitialContent)
    /\ UNCHANGED <<hookVars, serverVars, pureVars, ssrContent, served, windowHydrated,
                   entryRuns, hydrateCalls>>

\* Variant: the guard without the window.__HYDRATED__ flag.
ShouldHydrate_NoFlag(container, hydrated) == container

\* if (container && !window.__HYDRATED__)
ShouldHydrate(container, hydrated) == container /\ ~hydrated

\* The client entry module is evaluated: it reads the global, looks for the
\* container and hydrates once; hydrateRoot renders App, whose hook seeds the
\* page state with props.content.
RunEntryClient ==
    /\ entryRuns < MaxRuns
    /\ entryRuns' = entryRuns + 1
    /\ LET content == ReadInitialContent(windowInitialContent) IN
         IF ShouldHydrate(Container(inserted, served), windowHydrated)
         THEN /\ windowHydrated' = TRUE
              /\ hydrateCalls' = Append(hydrateCalls, content)
              /\ initialContent' = content
              /\ page' = NullishToNull(content)
              /\ phase' = "seeded"
         ELSE UNCHANGED <<windowHydrated, hydrateCalls, initialContent, page, phase>>
    /\ UNCHANGED <<serverVars, pureVars, ssrContent, served, inserted, windowInitialContent,
                   isPreviewMode, pathname, initialPath, livePreviewReady, effectPending,
                   timer, readyTimer, initCalls, entryChangeCallbacks, fetches, inflight,
                   mountPath, navLog, notifCount, droppedCount>>

PageNext ==
    \/ InsertFragment
    \/ RunEntryClient
    \/ Mount

PageSpec == PageInit /\ [][PageNext]_vars

(***************************************************************************)
(* The client model                                                        *)
(***************************************************************************)
Init == HookInit /\ ServerIdle /\ ResolverIdle /\ SerializerIdle /\ ClientIdle

Next ==
    \/ Mount
    \/ \E q \in Paths : Navigate(q)
    \/ RouteEffect
    \/ SetupTimerFires
    \/ ReadyTimerFires
    \/ Notify
    \/ \E i \in inflight : \E o \in ProviderOutcomes(fetches[i].path) : Resolve(i, o)
    \/ Unmount

Spec == Init /\ [][Next]_vars

TypeOK ==
    /\ isPreviewMode \in BOOLEAN
    /\ pathname \in Paths
    /\ phase \in {"seeded", "mounted", "unmounted"}
    /\ timer \in {"none", "pending", "fired", "cleared"}
    /\ readyTimer \in {"none", "pending", "fired"}
    /\ inflight \subseteq DOMAIN fetches

(***************************************************************************)
(* Properties of the Hydration Synchronizer (Spec)                         *)
(***************************************************************************)
IsRoute(f) == f.cause = "route"
IsNotify(f) == f.cause = "notify"
RouteFetches == SelectSeq(fetches, IsRoute)
NotifyFetches == SelectSeq(fetches, IsNotify)
PathsOf(fs) == [i \in DOMAIN fs |-> fs[i].path]

\* C1: a fetch started for path A that resolves while the router is at a
\* different path B leaves the page state as it was.
C1_StaleGuard ==
    [][\A i \in inflight \ inflight' :
          fetches[i].path # pathname => page' = page]_vars

\* C2: first attachment issues no fetch, and as long as no route change to
\* another path and no accepted notification happened no fetch has been
\* issued and the page state is the payload passed in (or null), with and
\* without live preview.
C2_FirstAttach ==
    /\ (/\ phase # "seeded"
        /\ \A i \in DOMAIN navLog : navLog[i] = mountPath
        /\ notifCount = droppedCount) => fetches = <<>>
    /\ fetches = <<>> => page = NullishToNull(initialContent)

C2_Witness ==
    /\ phase = "mounted"
    /\ isPreviewMode /\ livePreviewReady
    /\ navLog = <<mountPath>>
    /\ fetches = <<>>
    /\ page = Entry(mountPath)

\* C3: the route effect after a change from the tracked path p to q issues
\* exactly one fetch, addressed to q, when q differs from p and none
\* otherwise, and leaves q as the tracked path; the render itself issues none.
C3_RouteChange ==
    [][/\ (navLog' # navLog) => fetches' = fetches
       /\ (effectPending /\ ~effectPending' /\ phase' = "mounted") =>
             /\ initialPath' = pathname
             /\ fetches' = IF pathname # initialPath
                           THEN Append(fetches, [path |-> pathname, cause |-> "route",
                                                 at |-> pathname])
                           ELSE fetches]_vars

C3_Witness ==
    /\ Len(RouteFetches) = 2
    /\ RouteFetches[1].path # mountPath
    /\ RouteFetches[2].path = pathname
    /\ initialPath = pathname
    /\ ~effectPending

\* C4 (as stated): from payload P0 at /a, after the change to /b, the
\* "change" to /a issues no fetch: only the fetch for /b was issued.
C4_BackToFirstIsNoOp ==
    (/\ mountPath = "/a" /\ initialContent = Entry("/a")
     /\ navLog = <<"/b", "/a">>
     /\ phase = "mounted" /\ ~effectPending)
        => PathsOf(RouteFetches) = <<"/b">>

\* C4 (amended): from payload P0 at /a, after the change to /b, a "change" to
\* /b again issues no fetch, and the change back to /a issues one fetch, for /a.
C4_SamePathIsNoOp ==
    (/\ mountPath = "/a" /\ initialContent = Entry("/a")
     /\ phase = "mounted" /\ ~effectPending)
        => /\ navLog = <<"/b", "/b">> => PathsOf(RouteFetches) = <<"/b">>
           /\ navLog = <<"/b", "/a">> => PathsOf(RouteFetches) = <<"/b", "/a">>

C4_Witness ==
    /\ mountPath = "/a" /\ initialContent = Entry("/a")
    /\ navLog = <<"/b", "/b">>
    /\ phase = "mounted" /\ ~effectPending
    /\ PathsOf(RouteFetches) = <<"/b">>

\* C5: a notification delivered before the ready flag is set issues no fetch,
\* and setting the ready flag issues none either.
C5_DroppedNotQueued ==
    [][/\ (notifCount' # notifCount /\ ~livePreviewReady) => fetches' = fetches
       /\ (livePreviewReady' # livePreviewReady) => fetches' = fetches]_vars

C5_Witness ==
    /\ droppedCount > 0
    /\ entryChangeCallbacks # <<>>
    /\ livePreviewReady
    /\ NotifyFetches = <<>>

\* C6: every fetch issued by a notification is addressed to the path that was
\* current when the notification arrived.
C6_NotifyFetchesCurrentPath ==
    \A i \in DOMAIN fetches :
        fetches[i].cause = "notify" => fetches[i].path = fetches[i].at

\* C7: without preview mode the channel is never initialised, no callback is
\* registered, no timer is started, the ready flag stays false and every
\* fetch comes from a route change.
C7_InertWithoutPreview ==
    ~isPreviewMode =>
        /\ initCalls = 0
        /\ entryChangeCallbacks = <<>>
        /\ ~livePreviewReady
        /\ timer = "none" /\ readyTimer = "none"
        /\ NotifyFetches = <<>>

C7_Witness ==
    /\ ~isPreviewMode
    /\ notifCount > 0
    /\ RouteFetches # <<>>
    /\ phase = "unmounted"

\* C8: the channel is initialised at most once and at most one callback is
\* registered, whatever the route changes and notifications.
C8_ArmedOnce ==
    /\ initCalls <= 1
    /\ Len(entryChangeCallbacks) <= 1

C8_Witness ==
    /\ initCalls = 1
    /\ Len(entryChangeCallbacks) = 1
    /\ Len(navLog) = MaxNavs
    /\ NotifyFetches # <<>>

\* C9: once the component is torn down with the setup timer not fired, the
\* timer never fires: no init, no callback, ready flag false, for ever.
C9_ClearedOnTeardown ==
    [][(phase = "unmounted" /\ timer # "fired") =>
          /\ timer' # "fired"
          /\ initCalls' = 0
          /\ entryChangeCallbacks' = <<>>
          /\ ~livePreviewReady']_vars

C9_Witness ==
    /\ phase = "unmounted"
    /\ isPreviewMode
    /\ timer = "cleared"
    /\ notifCount > 0

(***************************************************************************)
(* Properties of the production server (ServerSpec)                        *)
(***************************************************************************)
TagRank(kind) ==
    IF kind = "stylesheet" THEN 1 ELSE IF kind = "modulepreload" THEN 2
    ELSE IF kind = "module" THEN 3 ELSE 0

KindCount(body, kind) == Cardinality({i \in DOMAIN body : body[i].kind = kind})

\* C10: a 200 response is the root container with the markup rendered for
\* the request, then the script assigning the serializedText payload to
\* window.__INITIAL_CONTENT__, then stylesheet links, then modulepreload
\* links, then exactly one module script, which is the last tag.
C10_WireOrder ==
    \A r \in Reqs :
        requests[r].response.status = 200 =>
            LET body == requests[r].response.body IN
            /\ Len(body) >= 3
            /\ body[1].kind = "root"
            /\ body[1].html = render(requests[r].url, requests[r].content)
            /\ body[2].kind = "hydration"
            /\ body[2].global = "__INITIAL_CONTENT__"
            /\ body[2].text = serializeContent(requests[r].content).text
            /\ \A i \in 3..Len(body) : TagRank(body[i].kind) > 0
            /\ \A i, j \in 3..Len(body) :
                  i < j => TagRank(body[i].kind) <= TagRank(body[j].kind)
            /\ KindCount(body, "module") = 1
            /\ body[Len(body)].kind = "module"

C10_Witness ==
    \E r \in Reqs :
        /\ requests[r].response.status = 200
        /\ requests[r].content # Null
        /\ KindCount(requests[r].response.body, "stylesheet") = 2
        /\ KindCount(requests[r].response.body, "modulepreload") = 2
        /\ ASSET_BASE_URL # <<>>
(***************************************************************************)
(* Properties of the Manifest Resolver (ServerSpec)                        *)
(***************************************************************************)
ClientEntryKey == "src/entry-client.tsx"

Last(str) == str[Len(str)]

\* The asset tags of a fragment: what follows the container and the script.
AssetTagsOf(body) == SubSeq(body, 3, Len(body))

CssOf(entry) == IF "css" \in DOMAIN entry THEN entry.css ELSE <<>>
ImportsOf(entry) == IF "imports" \in DOMAIN entry THEN entry.imports ELSE <<>>

\* The distinct import keys of the entry whose manifest entry has a file.
PreloadKeys(m, entry) ==
    {k \in {ImportsOf(entry)[i] : i \in DOMAIN ImportsOf(entry)} :
        k \in DOMAIN m /\ "file" \in DOMAIN m[k] /\ m[k].file # <<>>}

FirstAt(list, k) == CHOOSE i \in DOMAIN list : list[i] = k /\ \A j \in 1..(i - 1) : list[j] # k

\* tags is: one stylesheet per CSS file in list order, one modulepreload per
\* distinct import key with a file in order of first listing, one module tag.
TagsAsListed(tags, m, entry) ==
    LET css == CssOf(entry)
        keys == PreloadKeys(m, entry)
        n == Len(css)
        p == Cardinality(keys)
    IN /\ Len(tags) = n + p + 1
       /\ \A i \in 1..n :
             tags[i].kind = "stylesheet" /\ Last(tags[i].url) = Last(css[i])
       /\ \A j \in 1..p :
             /\ tags[n + j].kind = "modulepreload"
             /\ \E k \in keys :
                   /\ Last(tags[n + j].url) = Last(m[k].file)
                   /\ Cardinality({k2 \in keys :
                          FirstAt(ImportsOf(entry), k2) < FirstAt(ImportsOf(entry), k)}) = j - 1
       /\ tags[n + p + 1].kind = "module"
       /\ Last(tags[n + p + 1].url) = Last(entry.file)

\* C11: the asset tags of every fragment sent are one stylesheet tag per CSS
\* file of the client entry in list order, then one modulepreload tag per
\* distinct import key whose manifest entry has a file, then one module tag
\* for the entry's file; the resolver computes exactly these for the
\* loaded manifest.
C11_TagsAsListed ==
    /\ \A r \in Reqs :
          (requests[r].pc = "done" /\ requests[r].response.status = 200) =>
              /\ ClientEntryKey \in DOMAIN manifest
              /\ TagsAsListed(AssetTagsOf(requests[r].response.body), manifest,
                              manifest[ClientEntryKey])
    /\ (serverState = "listening" /\ ClientEntryKey \in DOMAIN manifest) =>
          LET res == generateAssetTags(manifest, ASSET_BASE_URL, ClientEntryKey) IN
          ~res.threw /\ TagsAsListed(res.tags, manifest, manifest[ClientEntryKey])

\* Two CSS files and one import: 2 stylesheet, 1 modulepreload, 1 module tag.
C11_Witness ==
    \E r \in Reqs :
        /\ requests[r].pc = "done" /\ requests[r].response.status = 200
        /\ Len(CssOf(manifest[ClientEntryKey])) = 2
        /\ Len(ImportsOf(manifest[ClientEntryKey])) = 1
        /\ Len(requests[r].response.body) = 6
        /\ [i \in 1..4 |-> AssetTagsOf(requests[r].response.body)[i].kind]
              = <<"stylesheet", "stylesheet", "modulepreload", "module">>

(***************************************************************************)
(* Properties of the production handler (ServerSpec)                       *)
(***************************************************************************)
GenericBody == <<[kind |-> "text", text |-> "Internal Server Error"]>>

\* C12: a request during which a step failed is answered with status 500
\* and the generic message as the whole body; a 200 is sent only when the
\* import, the lookup, the render, the asset tags and the serialization all
\* succeeded, and then the body is the fragment.
C12_GenericError ==
    \A r \in Reqs :
        requests[r].pc = "done" =>
            LET req == requests[r] IN
            /\ req.response.status \in {200, 500}
            /\ (req.failed # "none") <=> (req.response.status = 500)
            /\ req.response.status = 500 => req.response.body = GenericBody
            /\ (~req.rendered.ok \/ ClientEntryKey \notin DOMAIN manifest)
                  => req.response.status = 500
            /\ req.response.status = 200 =>
                  /\ req.rendered.ok
                  /\ ~generateAssetTags(manifest, ASSET_BASE_URL, ClientEntryKey).threw
                  /\ ~serializeContent(req.content).threw
                  /\ req.response.body[1].kind = "root"

C12_Witness ==
    \E r1, r2 \in Reqs :
        /\ requests[r1].pc = "done" /\ requests[r1].failed = "import"
        /\ requests[r2].pc = "done" /\ requests[r2].failed = "render"
        /\ requests[r1].response.body = GenericBody
        /\ requests[r2].response.body = GenericBody

(***************************************************************************)
(* Properties of the Content Resolver (ResolverSpec)                       *)
(***************************************************************************)
\* The settled lookups: the slug asked for and the promise it settled with.
Lookups ==
    IF foundA = NoValue THEN {}
    ELSE {[slug |-> slugA.value, promise |-> foundA.value],
          [slug |-> slugB.value, promise |-> foundB.value]}

\* C13: a lookup never rejects; it resolves with null when the provider
\* call failed or the store has no entry whose url is the slug, and with
\* the stored entry for that slug otherwise.
C13_NeverRaises ==
    \A l \in Lookups :
        /\ ~l.promise.rejected
        /\ (findOutcome = "error" \/ StoredEntries(l.slug) = {}) => l.promise.value = Null
        /\ (findOutcome = "data" /\ StoredEntries(l.slug) # {}) =>
              /\ l.promise.value \in StoredEntries(l.slug)
              /\ l.promise.value.url = l.slug

\* The provider failed for a slug that has an entry, and the lookup resolved.
C13_Witness ==
    /\ findOutcome = "error"
    /\ \E l \in Lookups : StoredEntries(l.slug) # {} /\ l.promise.value = Null
    /\ \E l \in Lookups : StoredEntries(l.slug) = {}

(***************************************************************************)
(* Not-found requests (ServerSpec)                                         *)
(***************************************************************************)
\* C14: when the lookup of a request resolved with null and the render and
\* the asset tags succeeded, the answer is a 200 whose container holds the
\* not-found branch, whose hydration script assigns null, and whose asset
\* tags are the ones listed for the client entry.
C14_NotFoundIs200 ==
    \A r \in Reqs :
        LET req == requests[r] IN
        (/\ req.pc = "done"
         /\ req.rendered.ok
         /\ req.content = Null
         /\ ~generateAssetTags(manifest, ASSET_BASE_URL, ClientEntryKey).threw) =>
            /\ req.response.status = 200
            /\ req.response.body[1].kind = "root"
            /\ req.response.body[1].html.branch = "not-found"
            /\ req.response.body[2].kind = "hydration"
            /\ req.response.body[2].text = <<"null">>
            /\ TagsAsListed(AssetTagsOf(req.response.body), manifest,
                            manifest[ClientEntryKey])

\* /missing has no entry; /about?x=1 has one but the lookup resolved with null.
C14_Witness ==
    \E r1, r2 \in Reqs :
        /\ requests[r1].url = <<"/", "missing">>
        /\ requests[r2].url = <<"/", "about", "?", "x=1">>
        /\ \A r \in {r1, r2} :
              /\ requests[r].pc = "done" /\ requests[r].response.status = 200
              /\ requests[r].content = Null
              /\ requests[r].response.body[2].text = <<"null">>
        /\ Len(requests[r1].response.body) > 3

(***************************************************************************)
(* Query strings (ResolverSpec)                                            *)
(***************************************************************************)
\* u and v have the same path and differ at most in what follows the first "?".
DifferOnlyInQuery(u, v) ==
    \E n \in 0..Len(u) :
        /\ n <= Len(v)
        /\ SubSeq(u, 1, n) = SubSeq(v, 1, n)
        /\ \A i \in 1..n : u[i] # "?"
        /\ Len(u) = n \/ u[n + 1] = "?"
        /\ Len(v) = n \/ v[n + 1] = "?"

\* C15: two request URLs that differ only in their query string give the
\* same slug, which carries no query, and their lookups against the same
\* provider settle with the same payload.
C15_QueryStripped ==
    (slugA # NoValue /\ DifferOnlyInQuery(urlA, urlB)) =>
        /\ slugA = slugB
        /\ \A i \in DOMAIN slugA.value : slugA.value[i] # "?"
        /\ foundA # NoValue => foundA = foundB

C15_Witness ==
    /\ urlA = <<"/", "a">> /\ urlB = <<"/", "a", "?">>
    /\ foundA # NoValue /\ foundA.value.value # Null
    /\ foundB = foundA

(***************************************************************************)
(* Properties of the host page (PageSpec)                                  *)
(***************************************************************************)
HasToken(str, tok) == \E i \in DOMAIN str : str[i] = tok

\* C16: once hydrateRoot has rendered the tree, the content it was given,
\* the hook's argument and, as long as the hook has issued no fetch, the page
\* state all equal the content the server rendered with; the tree is only
\* hydrated from a fragment, and a later evaluation of the entry module
\* changes none of this.
C16_FirstRenderPayload ==
    /\ phase = "absent" <=> hydrateCalls = <<>>
    /\ hydrateCalls # <<>> =>
          /\ served.status = 200
          /\ hydrateCalls[1] = ssrContent
          /\ initialContent = ssrContent
          /\ fetches = <<>> => page = ssrContent

C16_Witness ==
    /\ phase = "mounted" /\ entryRuns = 2
    /\ ssrContent # Null
    /\ HasToken(ssrContent.title, "<") /\ HasToken(ssrContent.title, QUOTE)
    /\ page = ssrContent

(***************************************************************************)
(* Properties of the Payload Serializer (SerializerSpec)                   *)
(***************************************************************************)
CountOf(str, tok) == Cardinality({i \in DOMAIN str : str[i] = tok})

\* The positions of text where the escaped form of "<" starts.
EscapesIn(text) ==
    {i \in DOMAIN text :
        /\ i + 5 <= Len(text)
        /\ SubSeq(text, i, i + 5) = <<BACKSLASH, "u", "0", "0", "3", "c">>}

\* The number of "<" characters in the string fields of a payload.
LtIn(content) == IF content = Null THEN 0 ELSE CountOf(content.title, "<")

\* C17: serializeContent rejects no payload, its text holds no "<", and it
\* holds one escaped form \u003c for every "<" of the payload.
C17_NoRawLt ==
    serializedText # NoValue =>
        /\ ~serializedText.value.threw
        /\ CountOf(serializedText.value.text, "<") = 0
        /\ Cardinality(EscapesIn(serializedText.value.text)) = LtIn(payload)

\* The payload whose title is </script> has been serialized.
C17_Witness ==
    /\ payload # Null
    /\ payload.title = <<"<", "/", "script>">>
    /\ serializedText # NoValue
    /\ Cardinality(EscapesIn(serializedText.value.text)) = 1

\* C18: parsing the text serializeContent returned gives the payload back.
C18_RoundTrip ==
    parsed # NoValue =>
        /\ ~parsed.value.threw
        /\ parsed.value.value = payload

\* A payload with a "<", a quote and a backslash came back from the parse.
C18_Witness ==
    /\ parsed # NoValue
    /\ payload # Null
    /\ payload.title = <<"<", QUOTE, BACKSLASH>>
    /\ "url" \in DOMAIN payload
    /\ parsed.value.value.title = payload.title

(***************************************************************************)
(* Development bootstrap tags (ModesSpec)                                  *)
(***************************************************************************)
ViteClientUrl == <<"/", "@vite", "/", "client">>
SourceEntryUrl == <<"/", "src", "/", "entry-client.tsx">>

IsRefreshRuntime(e) == e.kind = "inline-module"
IsViteClient(e) == "url" \in DOMAIN e /\ e.url = ViteClientUrl
IsSourceEntry(e) == "url" \in DOMAIN e /\ e.url = SourceEntryUrl
IsDevTag(e) == IsRefreshRuntime(e) \/ IsViteClient(e) \/ IsSourceEntry(e)

DevTagsAt(body) == {i \in DOMAIN body : IsDevTag(body[i])}

\* C19: no response of the production server, fragment or error, holds a
\* development bootstrap tag; a fragment of the development server is the
\* root container, the hydration script and then the three bootstrap tags,
\* and its error responses hold none.
C19_DevTagsOnlyInDev ==
    \A r \in Reqs :
        requests[r].pc = "done" =>
            LET body == requests[r].response.body IN
            /\ mode = "production" => DevTagsAt(body) = {}
            /\ (mode = "development" /\ requests[r].response.status = 200) =>
                  /\ Len(body) = 5
                  /\ body[1].kind = "root"
                  /\ body[2].kind = "hydration"
                  /\ DevTagsAt(body) = 3..5
                  /\ \E i \in 3..5 : IsRefreshRuntime(body[i])
                  /\ \E i \in 3..5 : IsViteClient(body[i])
                  /\ \E i \in 3..5 : IsSourceEntry(body[i])
            /\ requests[r].response.status # 200 => DevTagsAt(body) = {}

\* The development server sent a fragment and an error response.
C19_Witness ==
    /\ mode = "development"
    /\ \E r1, r2 \in Reqs :
          /\ requests[r1].pc = "done" /\ requests[r1].response.status = 200
          /\ DevTagsAt(requests[r1].response.body) = 3..5
          /\ requests[r2].pc = "done" /\ requests[r2].response.status = 500

(***************************************************************************)
(* A manifest without the client entry (ServerSpec)                        *)
(***************************************************************************)
\* C20: with a manifest that lacks the client entry the resolver throws
\* and gives no tags; every request that got as far as the asset tags is
\* answered with 500 and the generic text, without any part of a fragment,
\* and the server keeps listening.
C20_EntryNotFound ==
    (serverState # "starting" /\ ClientEntryKey \notin DOMAIN manifest
        /\ manifestFile.kind = "json") =>
        /\ generateAssetTags(manifest, ASSET_BASE_URL, ClientEntryKey)
              = [threw |-> TRUE, tags |-> <<>>]
        /\ serverState = "listening"
        /\ \A r \in Reqs :
              (requests[r].pc = "done" /\ requests[r].rendered.ok) =>
                  /\ requests[r].failed = "assets"
                  /\ requests[r].response.status = 500
                  /\ requests[r].response.body = GenericBody
                  /\ ElementsOf(requests[r].response.body, "root") = {}
                  /\ ElementsOf(requests[r].response.body, "hydration") = {}

\* One request was answered with 500 because of the missing entry, and
\* another one is being handled or was answered too.
C20_Witness ==
    /\ ClientEntryKey \notin DOMAIN manifest
    /\ \E r1, r2 \in Reqs :
          /\ r1 # r2
          /\ requests[r1].pc = "done" /\ requests[r1].failed = "assets"
          /\ requests[r2].pc = "done" /\ requests[r2].response.status = 500
          /\ requests[r2].rendered.ok

(***************************************************************************)
(* Manifest load at startup (ServerSpec)                                   *)
(***************************************************************************)
\* C21: the manifest variable is assigned only by the startup step, which
\* runs once; after it the process either listens with the manifest read
\* from the file or has exited because the file is absent or malformed;
\* a request is only ever handled by a listening process whose manifest is
\* the file's content.
C21_LoadedOnceOrExit ==
    /\ [](/\ serverState = "exited" => manifestFile.kind \in {"absent", "malformed"}
          /\ serverState = "listening" =>
                manifestFile.kind = "json" /\ manifest = manifestFile.value
          /\ \A r \in Reqs :
                requests[r].pc # "idle" =>
                    /\ serverState = "listening"
                    /\ manifestFile.kind = "json" /\ manifest = manifestFile.value)
    /\ [][/\ manifest' # manifest => serverState = "starting"
          /\ serverState # "starting" => serverState' = serverState
          /\ (serverState = "starting" /\ serverState' # "starting"
                /\ manifestFile.kind # "json") => serverState' = "exited"]_vars

\* The file is malformed: the process has exited and no request was taken.
C21_Witness ==
    /\ mode = "production"
    /\ serverState = "exited"
    /\ manifestFile.kind = "malformed"
    /\ \A r \in Reqs : requests[r].pc = "idle"

(***************************************************************************)
(* Concurrent requests (ServerSpec)                                        *)
(***************************************************************************)
\* content is what a lookup for the path of url can give: null, or an entry
\* whose url field is that path.
ResolvedFor(content, url) ==
    content = Null \/ DifferOnlyInQuery(content.url, url)

\* html is the markup of content at url.
MarkupOf(html, content, url) ==
    IF content = Null
    THEN html.branch = "not-found" /\ DifferOnlyInQuery(html.pathname, url)
    ELSE html.branch = "page" /\ html.title = content.title

\* C22: whatever other requests are in flight, the content a request holds
\* is one resolved for its own path, its markup is the markup of that
\* content, and a fragment sent holds that markup and a script whose text
\* parses to that content; the manifest and the asset base URL do not
\* change once the server listens.
C22_NoSharedState ==
    /\ [](\A r \in Reqs :
            LET req == requests[r] IN
            /\ (req.pc \in {"render", "done"} /\ req.rendered.ok) =>
                  /\ ResolvedFor(req.content, req.url)
                  /\ MarkupOf(req.rendered.html, req.content, req.url)
            /\ (req.pc = "done" /\ req.response.status = 200) =>
                  /\ req.response.body[1].html = req.rendered.html
                  /\ JSONParse([undefined |-> FALSE, text |-> req.response.body[2].text]).value
                        = req.content)
    /\ [][serverState = "listening" =>
             manifest' = manifest /\ ASSET_BASE_URL' = ASSET_BASE_URL]_vars

\* Two requests for different paths were answered, one with the page of
\* /about and one with the not-found branch of /missing.
C22_Witness ==
    \E r1, r2 \in Reqs :
        /\ requests[r1].pc = "done" /\ requests[r1].response.status = 200
        /\ requests[r2].pc = "done" /\ requests[r2].response.status = 200
        /\ requests[r1].content # Null /\ requests[r1].response.body[1].html.branch = "page"
        /\ requests[r2].url = <<"/", "missing">>
        /\ requests[r2].response.body[1].html.branch = "not-found"

(***************************************************************************)
(* Order of the steps of one request (ModesSpec)                           *)
(***************************************************************************)
\* The moves of a handler invocation between its awaits.
StepOrder ==
    {<<"idle", "import">>, <<"import", "fetch">>, <<"fetch", "render">>,
     <<"import", "done">>, <<"fetch", "done">>, <<"render", "done">>,
     <<"idle", "dev-import">>, <<"dev-import", "dev-fetch">>, <<"dev-fetch", "dev-render">>,
     <<"dev-import", "done">>, <<"dev-fetch", "done">>, <<"dev-render", "done">>}

\* response is the whole fragment for the markup and content held by req.
CompleteFragment(response, req) ==
    /\ response.status = 200
    /\ req.pc \in {"render", "dev-render"}
    /\ req.rendered.ok
    /\ Len(response.body) >= 3
    /\ response.body[1].kind = "root" /\ response.body[1].html = req.rendered.html
    /\ response.body[2].kind = "hydration"
    /\ JSONParse([undefined |-> FALSE, text |-> response.body[2].text]).value = req.content
    /\ IF mode = "production"
       THEN /\ ClientEntryKey \in DOMAIN manifest
            /\ TagsAsListed(AssetTagsOf(response.body), manifest, manifest[ClientEntryKey])
       ELSE DevTagsAt(response.body) = 3..5 /\ Len(response.body) = 5

\* response is an error answer that holds nothing of a fragment.
ErrorOnly(response) ==
    /\ response.status = 500
    /\ ElementsOf(response.body, "root") = {}
    /\ ElementsOf(response.body, "hydration") = {}
    /\ \A i \in DOMAIN response.body : "url" \notin DOMAIN response.body[i]

\* C23: a handler invocation moves through import, lookup, render and
\* answer in this order; the content is set when the lookup settles and the
\* markup is rendered from it in the same step; the response is written in
\* the step that ends the invocation and never again, and it is the whole
\* fragment for that content and markup or an error answer without any
\* part of a fragment.
C23_OrderedSteps ==
    [][\A r \in Reqs :
          LET a == requests[r]
              b == requests'[r]
          IN /\ a.pc # b.pc => <<a.pc, b.pc>> \in StepOrder
             /\ a.pc = "done" => b = a
             /\ b.content # a.content => a.pc \in {"fetch", "dev-fetch"}
             /\ b.rendered # a.rendered =>
                   /\ a.pc \in {"fetch", "dev-fetch"}
                   /\ b.rendered.ok => MarkupOf(b.rendered.html, b.content, a.url)
             /\ b.response # a.response => (b.pc = "done" /\ a.response.status = 0)
             /\ (a.pc # "done" /\ b.pc = "done") =>
                   (CompleteFragment(b.response, a) \/ ErrorOnly(b.response))]_vars

\* One request was answered with the fragment and one with the error.
C23_Witness ==
    \E r1, r2 \in Reqs :
        /\ requests[r1].pc = "done" /\ requests[r1].response.status = 200
        /\ Len(requests[r1].response.body) >= 3
        /\ requests[r2].pc = "done" /\ requests[r2].failed = "render"
        /\ requests[r2].response.status = 500

(***************************************************************************)
(* Teardown, convergence and failed refetches of the hook (Spec)           *)
(***************************************************************************)
\* C24: once the component is torn down no fetch is issued and the page
\* state is not written, whatever timer fires or notification arrives later.
C24_QuietAfterTeardown ==
    [][phase = "unmounted" => (fetches' = fetches /\ page' = page)]_vars

\* C25: when the component is mounted, every fetch has resolved and no effect
\* is waiting to run, the page state is what the provider gives for the
\* current path: its entry, or null when the lookup failed or found nothing.
C25_Converges ==
    (phase = "mounted" /\ inflight = {} /\ ~effectPending /\ fetches # <<>>)
        => page \in {fetchPageBySlug(o) : o \in ProviderOutcomes(SlugOf(pathname))}

\* C29: when a refetch, started by a route change or by a notification,
\* settles after the provider threw or returned no entry, the page state of
\* the mounted component becomes null whatever it held, and no fetch is
\* issued in its place.
C29_FailedRefetchIsNull ==
    [][\A i \in inflight :
          \A o \in ProviderOutcomes(fetches[i].path) :
              (/\ o \in {[kind |-> "error"], [kind |-> "entries", entries |-> <<>>]}
               /\ phase = "mounted"
               /\ Resolve(i, o))
                  => (page' = Null /\ fetches' = fetches /\ inflight' = inflight \ {i})]_vars

\* A payload was held, a route fetch and a notification fetch were issued,
\* both have settled and the page state is null.
C29_Witness ==
    /\ phase = "mounted"
    /\ initialContent = Entry(mountPath)
    /\ RouteFetches # <<>> /\ NotifyFetches # <<>>
    /\ inflight = {}
    /\ page = Null

(***************************************************************************)
(* Preload links and asset URLs (ServerSpec)                               *)
(***************************************************************************)
IsPreload(t) == t.kind = "modulepreload"
PreloadsOf(body) == SelectSeq(body, IsPreload)
DirectKeys(entry) == {ImportsOf(entry)[i] : i \in DOMAIN ImportsOf(entry)}
HasFile(m, k) == k \in DOMAIN m /\ "file" \in DOMAIN m[k] /\ m[k].file # <<>>

\* C26: in a fragment every modulepreload link is for a key of the client
\* entry's own import list that has a manifest entry with a file, each such
\* key has exactly one link however often it is listed, and a key listed
\* only by an imported chunk, or without entry or file, has none.
C26_DirectImportsOnly ==
    \A r \in Reqs :
        (requests[r].pc = "done" /\ requests[r].response.status = 200) =>
            LET entry == manifest[ClientEntryKey]
                pre == PreloadsOf(requests[r].response.body)
                linksTo(k) == {i \in DOMAIN pre : Last(pre[i].url) = Last(manifest[k].file)}
            IN /\ \A i \in DOMAIN pre :
                     \E k \in DirectKeys(entry) : HasFile(manifest, k) /\ i \in linksTo(k)
               /\ \A k \in DOMAIN manifest :
                     HasFile(manifest, k) =>
                        Cardinality(linksTo(k)) = IF k \in DirectKeys(entry) THEN 1 ELSE 0
               /\ Len(pre) = Cardinality({k \in DirectKeys(entry) : HasFile(manifest, k)})

\* The entry lists one chunk twice, the chunk imports another one: one link.
C26_Witness ==
    \E r \in Reqs :
        /\ requests[r].pc = "done" /\ requests[r].response.status = 200
        /\ ImportsOf(manifest[ClientEntryKey]) = <<"src/App.tsx", "src/App.tsx">>
        /\ "_vendor.js" \in {manifest["src/App.tsx"].imports[i] :
                               i \in DOMAIN manifest["src/App.tsx"].imports}
        /\ Len(PreloadsOf(requests[r].response.body)) = 1

\* The configured prefix with one trailing slash removed, empty when none is set.
PrefixOf(env) ==
    IF ~env.set THEN <<>>
    ELSE IF env.value # <<>> /\ Last(env.value) = "/"
         THEN [i \in 1..(Len(env.value) - 1) |-> env.value[i]]
    ELSE env.value

\* C27: every URL of an asset tag of a fragment is the configured prefix
\* without one trailing slash, then /assets/, then the base name of a file of
\* the manifest, and starts with /assets/ when no prefix is configured; when
\* a prefix is configured every stylesheet, modulepreload and module tag
\* carries crossorigin.
C27_UrlShape ==
    \A r \in Reqs :
        (requests[r].pc = "done" /\ requests[r].response.status = 200) =>
            LET tags == AssetTagsOf(requests[r].response.body)
                files == {manifest[k].file : k \in {j \in DOMAIN manifest : HasFile(manifest, j)}}
                           \cup UNION {{CssOf(manifest[k])[i] : i \in DOMAIN CssOf(manifest[k])} :
                                          k \in DOMAIN manifest}
            IN \A i \in DOMAIN tags :
                  /\ \E f \in files :
                        tags[i].url = PrefixOf(envAssetBaseUrl) \o <<"/", "assets", "/", Last(f)>>
                  /\ PrefixOf(envAssetBaseUrl) = <<>> =>
                        SubSeq(tags[i].url, 1, 3) = <<"/", "assets", "/">>
                  /\ PrefixOf(envAssetBaseUrl) # <<>> => tags[i].crossorigin

\* A prefix given with a trailing slash, a fragment with all three kinds of tag.
C27_Witness ==
    \E r \in Reqs :
        /\ requests[r].pc = "done" /\ requests[r].response.status = 200
        /\ envAssetBaseUrl = Value(<<"https:", "/", "/", "cdn.example.com", "/">>)
        /\ {"stylesheet", "modulepreload", "module"}
              \subseteq {requests[r].response.body[i].kind : i \in DOMAIN requests[r].response.body}

(***************************************************************************)
(* Hydration of the host page (PageSpec)                                   *)
(***************************************************************************)
\* C28: however often the client entry module is evaluated on a page,
\* hydrateRoot is called at most once, and only in an evaluation that found
\* the root container in the document.
C28_HydrateOnce ==
    /\ [](Len(hydrateCalls) <= 1)
    /\ [][hydrateCalls' # hydrateCalls =>
             (Container(inserted, served) /\ ~windowHydrated /\ windowHydrated')]_vars

\* The module was evaluated at least twice and hydrateRoot was called once.
C28_Witness ==
    /\ entryRuns >= 2
    /\ Len(hydrateCalls) = 1
    /\ windowHydrated

(***************************************************************************)
(* The slug of a request URL (ResolverSpec)                                *)
(***************************************************************************)
\* C30: the slug of every URL starts with "/" and holds no "?"; it is "/"
\* when nothing precedes the first "?" of the URL; and the slug of a slug is
\* the slug itself.
C30_CleanPath ==
    /\ slugA # NoValue =>
          /\ slugA.value # <<>> /\ Head(slugA.value) = "/"
          /\ ~HasToken(slugA.value, "?")
          /\ (urlA = <<>> \/ Head(urlA) = "?") => slugA.value = <<"/">>
    /\ slugAgain # NoValue => slugAgain.value = slugA.value

====
